---- MODULE Spec2Model ----
(***************************************************************************)
(* A model of NPS01.py, the "now playing" reporter: FileParser (text to    *)
(* artist/title), RadioPlayerAPI (validation and one HTTP post),           *)
(* FileChangeHandler (debounced change events), RadioPlayerMonitor         *)
(* (startup pass, observer lifecycle) and main (exit status).              *)
(*                                                                         *)
(* A Python str is a sequence of one-character strings; None is the        *)
(* one-element sequence None below, which no text can equal.               *)
(***************************************************************************)
EXTENDS Integers, Sequences, FiniteSets, TLC

---------------------------------------------------------------------------
(* Python strings                                                          *)

None == <<"None">>

NL == "\n"

\* The characters str.strip() removes (those met in the modelled texts).
Whitespace == {" ", "\t", NL}

\* str.lower() on the letters of the two labels; other characters are kept.
Lower(c) ==
  CASE c = "A" -> "a" [] c = "R" -> "r" [] c = "T" -> "t" [] c = "I" -> "i"
    [] c = "S" -> "s" [] c = "L" -> "l" [] c = "E" -> "e"
    [] OTHER -> c

LowerStr(s) == [i \in 1..Len(s) |-> Lower(s[i])]

RECURSIVE LStrip(_)
LStrip(s) ==
  IF s = <<>> THEN <<>>
  ELSE IF Head(s) \in Whitespace THEN LStrip(Tail(s)) ELSE s

RECURSIVE RStrip(_)
RStrip(s) ==
  IF s = <<>> THEN <<>>
  ELSE IF s[Len(s)] \in Whitespace THEN RStrip(SubSeq(s, 1, Len(s) - 1)) ELSE s

\* str.strip()
Strip(s) == RStrip(LStrip(s))

\* Index of the first line break of s, 0 when there is none.
RECURSIVE FirstBreak(_, _)
FirstBreak(s, i) ==
  IF i > Len(s) THEN 0
  ELSE IF s[i] = NL THEN i ELSE FirstBreak(s, i + 1)

\* str.splitlines(): the lines without their line breaks; a final line break
\* opens no further line, and the empty text has no line.
RECURSIVE SplitLines(_)
SplitLines(s) ==
  IF s = <<>> THEN <<>>
  ELSE LET b == FirstBreak(s, 1) IN
       IF b = 0 THEN <<s>>
       ELSE <<SubSeq(s, 1, b - 1)>> \o SplitLines(SubSeq(s, b + 1, Len(s)))

\* Python truthiness of an Optional[str]: None and "" are false.
Truthy(s) == s # None /\ s # <<>>

---------------------------------------------------------------------------
(* FileParser                                                              *)

ArtistPrefix == <<"a", "r", "t", "i", "s", "t", ":", " ">>
TitlePrefix == <<"t", "i", "t", "l", "e", ":", " ">>

\* re.compile(r'^<Label>: (.+)$', re.IGNORECASE).match(line): the label and
\* one space, compared without case, then at least one character that is no
\* line break, up to the end of the line.
PatternMatches(prefix, line) ==
  /\ Len(line) > Len(prefix)
  /\ LowerStr(SubSeq(line, 1, Len(prefix))) = prefix
  /\ \A i \in (Len(prefix) + 1)..Len(line) : line[i] # NL

\* match.group(1)
Group1(prefix, line) == SubSeq(line, Len(prefix) + 1, Len(line))

ARTIST_PATTERN(line) == PatternMatches(ArtistPrefix, line)
TITLE_PATTERN(line) == PatternMatches(TitlePrefix, line)

\* A faulty variant of ExtractStep: the first matching line wins.
ExtractStepFirstWins(acc, rawline) ==
  LET line == Strip(rawline) IN
  IF line = <<>> THEN acc
  ELSE IF ARTIST_PATTERN(line)
       THEN IF acc[1] = None THEN <<Strip(Group1(ArtistPrefix, line)), acc[2]>> ELSE acc
  ELSE IF TITLE_PATTERN(line)
       THEN IF acc[2] = None THEN <<acc[1], Strip(Group1(TitlePrefix, line))>> ELSE acc
  ELSE acc

\* One turn of the loop of _extract_metadata on <<artist, title>>.
ExtractStep(acc, rawline) ==
  LET line == Strip(rawline) IN
  IF line = <<>> THEN acc
  ELSE IF ARTIST_PATTERN(line)
       THEN <<Strip(Group1(ArtistPrefix, line)), acc[2]>>
  ELSE IF TITLE_PATTERN(line)
       THEN <<acc[1], Strip(Group1(TitlePrefix, line))>>
  ELSE acc

RECURSIVE ExtractLoop(_, _)
ExtractLoop(acc, lines) ==
  IF lines = <<>> THEN acc
  ELSE ExtractLoop(ExtractStep(acc, Head(lines)), Tail(lines))

\* FileParser._extract_metadata(content): <<artist, title>>
extract_metadata(content) == ExtractLoop(<<None, None>>, SplitLines(content))

\* FileParser.parse_file on a file that exists and whose read gives `raw`.
parse_text(raw) ==
  LET content == Strip(raw) IN
  IF content = <<>> THEN <<None, None>> ELSE extract_metadata(content)

---------------------------------------------------------------------------
(* RadioPlayerAPI                                                          *)

\* A faulty variant of validate_metadata: the check after stripping is left out.
validate_metadata_unstripped(artist, title) ==
  Truthy(artist) /\ Truthy(title)

\* RadioPlayerAPI._validate_metadata(artist, title)
validate_metadata(artist, title) ==
  IF ~Truthy(artist) \/ ~Truthy(title) THEN FALSE
  ELSE IF Len(Strip(artist)) = 0 \/ Len(Strip(title)) = 0 THEN FALSE
  ELSE TRUE

\* What session.post(url, timeout=30) can end in: a response with a status
\* code, a timeout, a connection error (both RequestException), or an
\* exception that is no RequestException.
StatusCodes == {101, 200, 204, 299, 304, 400, 404, 500, 503}

Responses ==
  [kind : {"status"}, code : StatusCodes]
    \cup [kind : {"timeout", "connection_error", "unexpected"}, code : {0}]

\* response.raise_for_status() raises HTTPError (a RequestException) for the
\* 4xx and 5xx codes only.
raise_for_status(code) == 400 <= code /\ code < 600

\* The exceptions the except clause of post_now_playing catches.
IsRequestException(resp) ==
  \/ resp.kind \in {"timeout", "connection_error"}
  \/ resp.kind = "status" /\ raise_for_status(resp.code)

\* A faulty variant of post_now_playing: a failed request is sent a second time.
post_now_playing_retry(artist, title, resp) ==
  IF ~validate_metadata(artist, title)
  THEN [result |-> FALSE, requests |-> 0, raised |-> FALSE, outcome |-> "rejected"]
  ELSE IF resp.kind = "unexpected"
  THEN [result |-> FALSE, requests |-> 1, raised |-> TRUE, outcome |-> "raised"]
  ELSE IF IsRequestException(resp)
  THEN [result |-> FALSE, requests |-> 2, raised |-> FALSE, outcome |-> "failed"]
  ELSE [result |-> TRUE, requests |-> 1, raised |-> FALSE, outcome |-> "delivered"]

\* RadioPlayerAPI.post_now_playing(artist, title) when the request ends in
\* resp: the value returned, the HTTP requests issued, whether an exception
\* leaves the method.
post_now_playing(artist, title, resp) ==
  IF ~validate_metadata(artist, title)
  THEN [result |-> FALSE, requests |-> 0, raised |-> FALSE, outcome |-> "rejected"]
  ELSE IF resp.kind = "unexpected"
  THEN [result |-> FALSE, requests |-> 1, raised |-> TRUE, outcome |-> "raised"]
  ELSE IF IsRequestException(resp)
  THEN [result |-> FALSE, requests |-> 1, raised |-> FALSE, outcome |-> "failed"]
  ELSE [result |-> TRUE, requests |-> 1, raised |-> FALSE, outcome |-> "delivered"]

\* The configuration the URL is built from: config.api_endpoint and
\* str(config.rpuid).
ApiEndpoint == <<"h", "t", "t", "p", ":", "/", "/", "e", "/", "n", "p">>
Rpuid == <<"7">>

\* A faulty variant of QuoteChar: quote() instead of quote_plus(), a space
\* becomes %20.
QuoteCharPercent(c) ==
  CASE c = " " -> <<"%", "2", "0">>
    [] c = "&" -> <<"%", "2", "6">>
    [] c = "+" -> <<"%", "2", "B">>
    [] c = "=" -> <<"%", "3", "D">>
    [] c = ":" -> <<"%", "3", "A">>
    [] OTHER -> <<c>>

\* urllib.parse.quote_plus on one character of the modelled texts: a space
\* becomes "+", a reserved character its percent escape, letters and digits
\* stay.
QuoteChar(c) ==
  CASE c = " " -> <<"+">>
    [] c = "&" -> <<"%", "2", "6">>
    [] c = "+" -> <<"%", "2", "B">>
    [] c = "=" -> <<"%", "3", "D">>
    [] c = ":" -> <<"%", "3", "A">>
    [] OTHER -> <<c>>

\* urllib.parse.quote_plus(s)
RECURSIVE quote_plus(_)
quote_plus(s) ==
  IF s = <<>> THEN <<>> ELSE QuoteChar(Head(s)) \o quote_plus(Tail(s))

\* RadioPlayerAPI._build_url(artist, title, timestamp)
build_url(artist, title, timestamp) ==
  ApiEndpoint \o <<"?">>
    \o <<"r", "p", "u", "i", "d", "=">> \o Rpuid \o <<"&">>
    \o <<"s", "t", "a", "r", "t", "T", "i", "m", "e", "=">> \o timestamp \o <<"&">>
    \o <<"t", "i", "t", "l", "e", "=">> \o quote_plus(title) \o <<"&">>
    \o <<"a", "r", "t", "i", "s", "t", "=">> \o quote_plus(artist)

---------------------------------------------------------------------------
(* Bounds and constants                                                    *)

\* The debounce window of on_modified, in seconds.
DebounceWindow == 1

\* Clock ticks per second: the resolution at which time.time() is modelled.
TicksPerSecond == 2

DebounceTicks == DebounceWindow * TicksPerSecond

\* Ticks the clock may advance while the observer runs.
MaxTicks == 3

\* Filesystem events delivered to the observer in one run.
MaxEvents == 2

\* Lines of a text handed to the extractor.
MaxLines == 3

\* time.time() counts from the epoch: at start it is far above the window.
BootClock == 2 * DebounceTicks

---------------------------------------------------------------------------
(* State                                                                   *)

VARIABLES
  mainpc,         \* where the main thread is in main / start_monitoring
  exitStatus,     \* the process's exit status, -1 while it runs
  observer,       \* self.observer: "none", "created", "started", "stopped", "joined"
  interruptedAt,  \* where the main thread was when the last SIGINT came, "none" before
  stopCalls,      \* calls of stop_monitoring
  obsStops,       \* calls of observer.stop()
  file,           \* the watched file: "missing", "unreadable" or a content
  initRead,       \* what the initial pass read, "none" before it
  ipair,          \* the pair the initial pass hands to the reporter
  initCalls,      \* calls of post_now_playing by the initial pass
  initOutcome,    \* how the initial pass ended, "none" before it
  queue,          \* the observer's event queue
  nEvents,        \* events delivered so far
  clock,          \* time.time(), in ticks
  last_modified,  \* FileChangeHandler.last_modified, in ticks
  hpc,            \* the observer thread: "idle", "read", "post"
  hpair,          \* the pair _process_file_change hands to the reporter
  hthread,        \* "alive", or "dead" once an exception left on_modified
  hOutcome,       \* how the last _process_file_change ended, "none" before
  accepted,       \* events accepted by on_modified
  prevT,          \* when the last accepted event happened, -1 before
  hCalls,         \* calls of post_now_playing by _process_file_change
  httpRequests,   \* HTTP requests issued
  exContent, exResult, exParsed, exDone,     \* the extractor on one text
  rpArtist, rpTitle, rpResp, rpOut, rpDone,  \* the reporter on one pair
  buTimestamp, buUrl, buDone                 \* _build_url on one extracted pair

monitorVars ==
  <<mainpc, exitStatus, interruptedAt, observer, stopCalls, obsStops, file,
    initRead, ipair, initCalls, initOutcome, queue, nEvents, clock, last_modified, hpc, hpair,
    hthread, hOutcome, accepted, prevT, hCalls, httpRequests>>

extractorVars == <<exContent, exResult, exParsed, exDone>>

reporterVars == <<rpArtist, rpTitle, rpResp, rpOut, rpDone>>

builderVars == <<buTimestamp, buUrl, buDone>>

vars == <<monitorVars, extractorVars, reporterVars, builderVars>>

---------------------------------------------------------------------------
(* The watched file                                                        *)

TextPair == <<"A", "r", "t", "i", "s", "t", ":", " ", "Q", NL,
              "T", "i", "t", "l", "e", ":", " ", "B", NL>>
TextNoTitle == <<"A", "r", "t", "i", "s", "t", ":", " ", "Q", NL>>

FileContents == {"pair", "no_title", "empty"}
FileKinds == {"missing", "unreadable"} \cup FileContents

FileText(f) ==
  CASE f = "pair" -> TextPair
    [] f = "no_title" -> TextNoTitle
    [] OTHER -> <<>>

\* FileParser.parse_file(path) on the file as it is: the exception raised
\* ("none" when it returns) and the pair returned.
parse_file(f) ==
  IF f = "missing" THEN [exc |-> "FileNotFoundError", pair |-> <<None, None>>]
  ELSE IF f = "unreadable" THEN [exc |-> "IOError", pair |-> <<None, None>>]
  ELSE [exc |-> "none", pair |-> parse_text(FileText(f))]

---------------------------------------------------------------------------
(* FileChangeHandler                                                       *)

\* A faulty variant of Eligible: the test of the path is left out.
EligibleAnyPath(e) == e.kind # "dir"

\* on_modified's two early returns: directory events and events for another
\* path of the watched directory are ignored.
Eligible(e) == e.kind = "file"

\* A faulty variant of Debounced: an event exactly one window after the last
\* accepted one is discarded too.
DebouncedInclusive(now, last) == now - last <= DebounceTicks

\* on_modified's debounce test at time `now`.
Debounced(now, last) == now - last < DebounceTicks

\* A faulty variant of HandlerCatches: only the read errors are caught.
HandlerCatchesReadErrors(exc) == exc \in {"FileNotFoundError", "IOError"}

\* `except Exception` of _process_file_change.
HandlerCatches(exc) == exc \in {"FileNotFoundError", "IOError", "unexpected"}

\* A faulty variant of HasPair: the pair is handed on whatever it holds.
HasPairAlways(pair) == TRUE

\* `if artist and title` of _process_file_change and _process_initial_file.
HasPair(pair) == Truthy(pair[1]) /\ Truthy(pair[2])

\* The observer thread takes the next event of its queue and calls
\* on_modified with it.
Dispatch ==
  /\ observer = "started" /\ hthread = "alive" /\ hpc = "idle" /\ queue # <<>>
  /\ LET e == Head(queue) IN
     /\ queue' = Tail(queue)
     /\ IF Eligible(e) /\ ~Debounced(clock, last_modified)
        THEN /\ last_modified' = clock
             /\ hpc' = "read"
             /\ accepted' = accepted + 1
             /\ prevT' = e.t
        ELSE UNCHANGED <<last_modified, hpc, accepted, prevT>>
  /\ UNCHANGED <<mainpc, exitStatus, observer, stopCalls, obsStops, file,
                 initRead, ipair, initCalls, initOutcome, nEvents, clock,
                 hpair, hthread, hOutcome, hCalls, httpRequests>>
  /\ UNCHANGED <<interruptedAt, extractorVars, reporterVars, builderVars>>

\* How _process_file_change ends when `exc` is raised inside its try.
HandlerRaise(exc) ==
  IF HandlerCatches(exc)
  THEN /\ hpc' = "idle" /\ hthread' = hthread
  ELSE /\ hpc' = "idle" /\ hthread' = "dead"

\* _process_file_change up to the call of the reporter: parse_file and the
\* test of the pair. The observer thread is a daemon thread: it ends with the
\* process.
ProcessRead ==
  /\ hpc = "read" /\ mainpc # "exited"
  /\ LET r == parse_file(file) IN
     IF r.exc # "none"
     THEN /\ HandlerRaise(r.exc)
          /\ hOutcome' = "read_error"
          /\ UNCHANGED hpair
     ELSE IF HasPair(r.pair)
     THEN /\ hpc' = "post" /\ hpair' = r.pair
          /\ UNCHANGED <<hthread, hOutcome>>
     ELSE /\ hpc' = "idle" /\ hOutcome' = "absent"
          /\ UNCHANGED <<hthread, hpair>>
  /\ UNCHANGED <<mainpc, exitStatus, observer, stopCalls, obsStops, file,
                 initRead, ipair, initCalls, initOutcome, queue, nEvents, clock,
                 last_modified, accepted, prevT, hCalls, httpRequests>>
  /\ UNCHANGED <<interruptedAt, extractorVars, reporterVars, builderVars>>

\* _process_file_change's call of post_now_playing, which ends in resp.
ProcessPost ==
  /\ hpc = "post" /\ mainpc # "exited"
  /\ \E resp \in Responses :
       LET r == post_now_playing(hpair[1], hpair[2], resp) IN
       /\ httpRequests' = httpRequests + r.requests
       /\ hCalls' = hCalls + 1
       /\ hOutcome' = r.outcome
       /\ IF r.raised THEN HandlerRaise("unexpected")
          ELSE hpc' = "idle" /\ hthread' = hthread
  /\ UNCHANGED <<mainpc, exitStatus, observer, stopCalls, obsStops, file,
                 initRead, ipair, initCalls, initOutcome, queue, nEvents, clock,
                 last_modified, hpair, accepted, prevT>>
  /\ UNCHANGED <<interruptedAt, extractorVars, reporterVars, builderVars>>

---------------------------------------------------------------------------
(* RadioPlayerMonitor and main                                             *)

mainFrame ==
  UNCHANGED <<file, queue, nEvents, clock, last_modified, hpc, hpair, hthread,
              hOutcome, accepted, prevT, hCalls>>

\* main: RadioPlayerMonitor() -- Config() raises ValueError when a required
\* setting is missing; main logs it and returns 1.
Construct ==
  /\ mainpc = "construct"
  /\ \E configured \in BOOLEAN :
       IF configured
       THEN mainpc' = "check_exists" /\ exitStatus' = exitStatus
       ELSE mainpc' = "exited" /\ exitStatus' = 1
  /\ UNCHANGED <<observer, stopCalls, obsStops, initRead, ipair, initCalls,
                 initOutcome, httpRequests>>
  /\ mainFrame
  /\ UNCHANGED <<interruptedAt, extractorVars, reporterVars, builderVars>>

\* stop_monitoring: what it does to the observer, whether observer.join()
\* raises (a thread that was never started cannot be joined) and whether it
\* has to wait for the observer thread.
stop_monitoring(obs) ==
  IF obs = "none"
  THEN [observer |-> "none", stops |-> 0, raised |-> FALSE, waits |-> FALSE]
  ELSE IF obs = "created"
  THEN [observer |-> "stopped", stops |-> 1, raised |-> TRUE, waits |-> FALSE]
  ELSE [observer |-> "stopped", stops |-> 1, raised |-> FALSE, waits |-> TRUE]

\* start_monitoring's test that the file exists; when it does not, the
\* FileNotFoundError is logged and raised again, the finally clause calls
\* stop_monitoring, and main returns 1.
CheckExists ==
  /\ mainpc = "check_exists"
  /\ IF file = "missing"
     THEN /\ mainpc' = "exited" /\ exitStatus' = 1
          /\ stopCalls' = stopCalls + 1
          /\ observer' = stop_monitoring(observer).observer
          /\ obsStops' = obsStops + stop_monitoring(observer).stops
     ELSE /\ mainpc' = "initial_read"
          /\ UNCHANGED <<exitStatus, stopCalls, observer, obsStops>>
  /\ UNCHANGED <<initRead, ipair, initCalls, initOutcome, httpRequests>>
  /\ mainFrame
  /\ UNCHANGED <<interruptedAt, extractorVars, reporterVars, builderVars>>

\* A faulty variant of InitialRead: a read error leaves _process_initial_file
\* and start_monitoring.
InitialReadUncaught ==
  /\ mainpc = "initial_read"
  /\ initRead' = file
  /\ LET r == parse_file(file) IN
     IF r.exc # "none"
     THEN /\ mainpc' = "exited" /\ exitStatus' = 1
          /\ stopCalls' = stopCalls + 1
          /\ initOutcome' = "read_error"
          /\ UNCHANGED ipair
     ELSE IF HasPair(r.pair)
     THEN /\ mainpc' = "initial_post" /\ ipair' = r.pair
          /\ UNCHANGED <<initOutcome, exitStatus, stopCalls>>
     ELSE /\ mainpc' = "subscribe" /\ initOutcome' = "absent"
          /\ UNCHANGED <<ipair, exitStatus, stopCalls>>
  /\ UNCHANGED <<observer, obsStops, initCalls, httpRequests>>
  /\ mainFrame
  /\ UNCHANGED <<interruptedAt, extractorVars, reporterVars, builderVars>>

\* _process_initial_file up to the call of the reporter; `except Exception`
\* catches what parse_file raises.
InitialRead ==
  /\ mainpc = "initial_read"
  /\ initRead' = file
  /\ LET r == parse_file(file) IN
     IF r.exc # "none"
     THEN /\ mainpc' = "subscribe" /\ initOutcome' = "read_error"
          /\ UNCHANGED ipair
     ELSE IF HasPair(r.pair)
     THEN /\ mainpc' = "initial_post" /\ ipair' = r.pair
          /\ UNCHANGED initOutcome
     ELSE /\ mainpc' = "subscribe" /\ initOutcome' = "absent"
          /\ UNCHANGED ipair
  /\ UNCHANGED <<exitStatus, observer, stopCalls, obsStops, initCalls,
                 httpRequests>>
  /\ mainFrame
  /\ UNCHANGED <<interruptedAt, extractorVars, reporterVars, builderVars>>

\* A faulty variant of InitialPost: the initial report counts as an accepted
\* event and sets last_modified.
InitialPostStamps ==
  /\ mainpc = "initial_post"
  /\ \E resp \in Responses :
       LET r == post_now_playing(ipair[1], ipair[2], resp) IN
       /\ httpRequests' = httpRequests + r.requests
       /\ initOutcome' = r.outcome
  /\ initCalls' = initCalls + 1
  /\ mainpc' = "subscribe"
  /\ last_modified' = clock
  /\ UNCHANGED <<exitStatus, observer, stopCalls, obsStops, initRead, ipair>>
  /\ UNCHANGED <<file, queue, nEvents, clock, hpc, hpair, hthread, hOutcome,
                 accepted, prevT, hCalls>>
  /\ UNCHANGED <<interruptedAt, extractorVars, reporterVars, builderVars>>

\* _process_initial_file's call of post_now_playing, which ends in resp; an
\* exception that leaves the reporter is caught and logged.
InitialPost ==
  /\ mainpc = "initial_post"
  /\ \E resp \in Responses :
       LET r == post_now_playing(ipair[1], ipair[2], resp) IN
       /\ httpRequests' = httpRequests + r.requests
       /\ initOutcome' = r.outcome
  /\ initCalls' = initCalls + 1
  /\ mainpc' = "subscribe"
  /\ UNCHANGED <<exitStatus, observer, stopCalls, obsStops, initRead, ipair>>
  /\ mainFrame
  /\ UNCHANGED <<interruptedAt, extractorVars, reporterVars, builderVars>>

\* A faulty variant of Subscribe: the observer is set up and started before
\* the initial pass.
SubscribeBeforeInitialPass ==
  /\ \/ mainpc = "initial_read" /\ observer = "none" /\ mainpc' = mainpc
     \/ mainpc = "subscribe" /\ mainpc' = "watching"
  /\ observer' = "started"
  /\ UNCHANGED <<exitStatus, stopCalls, obsStops, initRead, ipair, initCalls,
                 initOutcome, httpRequests>>
  /\ mainFrame
  /\ UNCHANGED <<interruptedAt, extractorVars, reporterVars, builderVars>>

\* FileChangeHandler(...), Observer(), observer.schedule(...)
Subscribe ==
  /\ mainpc = "subscribe"
  /\ observer' = "created"
  /\ mainpc' = "start_observer"
  /\ UNCHANGED <<exitStatus, stopCalls, obsStops, initRead, ipair, initCalls,
                 initOutcome, httpRequests>>
  /\ mainFrame
  /\ UNCHANGED <<interruptedAt, extractorVars, reporterVars, builderVars>>

\* observer.start(). When it raises (the watch cannot be set up), the
\* exception is logged and raised again, the finally clause calls
\* stop_monitoring on the observer that never ran, and main returns 1.
StartObserver ==
  /\ mainpc = "start_observer"
  /\ \E started \in BOOLEAN :
       IF started
       THEN /\ observer' = "started" /\ mainpc' = "watching"
            /\ UNCHANGED <<exitStatus, stopCalls, obsStops>>
       ELSE /\ mainpc' = "exited" /\ exitStatus' = 1
            /\ stopCalls' = stopCalls + 1
            /\ observer' = stop_monitoring(observer).observer
            /\ obsStops' = obsStops + stop_monitoring(observer).stops
  /\ UNCHANGED <<initRead, ipair, initCalls, initOutcome, httpRequests>>
  /\ mainFrame
  /\ UNCHANGED <<interruptedAt, extractorVars, reporterVars, builderVars>>

\* How the process ends when KeyboardInterrupt is raised in the main thread
\* outside the sleep loop: no `except Exception` catches it; the finally
\* clause of start_monitoring calls stop_monitoring; when that raises (an
\* Exception) main returns 1, otherwise the interrupt leaves main and the
\* interpreter ends with the status of an uncaught KeyboardInterrupt.
InterruptExit(obs) == IF stop_monitoring(obs).raised THEN 1 ELSE 130

\* An interrupt signal (SIGINT) reaches the main thread.
Interrupt ==
  /\ mainpc # "exited"
  /\ IF mainpc = "construct"
     THEN /\ mainpc' = "exited" /\ exitStatus' = 130
          /\ UNCHANGED <<observer, stopCalls, obsStops>>
     ELSE IF mainpc = "watching"
     THEN \* caught by the sleep loop's except; the finally clause calls
          \* stop_monitoring, which stops the observer and then joins it
          /\ mainpc' = "joining"
          /\ stopCalls' = stopCalls + 1
          /\ observer' = stop_monitoring(observer).observer
          /\ obsStops' = obsStops + stop_monitoring(observer).stops
          /\ UNCHANGED exitStatus
     ELSE IF mainpc = "joining"
     THEN \* raised inside observer.join(): it leaves stop_monitoring and main
          /\ mainpc' = "exited" /\ exitStatus' = 130
          /\ UNCHANGED <<observer, stopCalls, obsStops>>
     ELSE /\ mainpc' = "exited" /\ exitStatus' = InterruptExit(observer)
          /\ stopCalls' = stopCalls + 1
          /\ observer' = stop_monitoring(observer).observer
          /\ obsStops' = obsStops + stop_monitoring(observer).stops
  /\ interruptedAt' = mainpc
  /\ UNCHANGED <<initRead, ipair, initCalls, initOutcome, httpRequests>>
  /\ mainFrame
  /\ UNCHANGED <<extractorVars, reporterVars, builderVars>>

\* A faulty variant of Join: stop_monitoring returns without joining the
\* observer thread.
JoinWithoutWaiting ==
  /\ mainpc = "joining"
  /\ observer' = "joined"
  /\ mainpc' = "exited" /\ exitStatus' = 0
  /\ UNCHANGED <<stopCalls, obsStops, initRead, ipair, initCalls, initOutcome,
                 httpRequests>>
  /\ mainFrame
  /\ UNCHANGED <<interruptedAt, extractorVars, reporterVars, builderVars>>

\* observer.join() returns once the observer thread has left its loop, which
\* it does after the event it is handling; stop_monitoring logs and returns,
\* start_monitoring returns, main returns 0.
Join ==
  /\ mainpc = "joining"
  /\ hpc = "idle"
  /\ observer' = "joined"
  /\ mainpc' = "exited" /\ exitStatus' = 0
  /\ UNCHANGED <<stopCalls, obsStops, initRead, ipair, initCalls, initOutcome,
                 httpRequests>>
  /\ mainFrame
  /\ UNCHANGED <<interruptedAt, extractorVars, reporterVars, builderVars>>

---------------------------------------------------------------------------
(* The environment: the filesystem, the watch and the clock                *)

envFrame ==
  UNCHANGED <<mainpc, exitStatus, observer, stopCalls, obsStops, initRead,
              ipair, initCalls, initOutcome, last_modified, hpc, hpair, hthread,
              hOutcome, accepted, prevT, hCalls, httpRequests>>

\* The file changes while the process runs. Once the observer is stopped no
\* event is delivered any more, and a change made then shows only to a read
\* in flight, as does the same change made just before the interrupt: the
\* file is therefore left alone from then on.

\* The running observer's emitter puts an event into the queue.
Emit(kind) ==
  IF observer = "started"
  THEN /\ nEvents < MaxEvents
       /\ queue' = Append(queue, [kind |-> kind, t |-> clock])
       /\ nEvents' = nEvents + 1
  ELSE UNCHANGED <<queue, nEvents>>

\* The watched file is written (or touched, or its mode changed): a
\* modification event for the watched path when the observer runs.
ModifyFile ==
  /\ mainpc \notin {"joining", "exited"}
  /\ \E k \in FileKinds \ {"missing"} : file' = k
  /\ Emit("file")
  /\ UNCHANGED clock
  /\ envFrame
  /\ UNCHANGED <<interruptedAt, extractorVars, reporterVars, builderVars>>

\* The watched file is removed: no modification event.
RemoveFile ==
  /\ mainpc \notin {"joining", "exited"}
  /\ file # "missing"
  /\ file' = "missing"
  /\ UNCHANGED <<queue, nEvents, clock>>
  /\ envFrame
  /\ UNCHANGED <<interruptedAt, extractorVars, reporterVars, builderVars>>

\* A modification event of the watched directory that is not for the
\* watched file: a subdirectory ("dir") or another file ("other").
OtherEvent ==
  /\ observer = "started"
  /\ \E kind \in {"dir", "other"} : Emit(kind)
  /\ UNCHANGED <<file, clock>>
  /\ envFrame
  /\ UNCHANGED <<interruptedAt, extractorVars, reporterVars, builderVars>>

\* Time passes. Only on_modified reads the clock, so it is advanced only
\* while the observer runs. An idle observer thread takes a waiting event at
\* once: no time passes while it is idle and its queue is not empty.
Tick ==
  /\ observer = "started"
  /\ ~(hthread = "alive" /\ hpc = "idle" /\ queue # <<>>)
  /\ clock < BootClock + MaxTicks
  /\ clock' = clock + 1
  /\ UNCHANGED <<file, queue, nEvents>>
  /\ envFrame
  /\ UNCHANGED <<interruptedAt, extractorVars, reporterVars, builderVars>>

---------------------------------------------------------------------------
(* The texts and pairs the pure functions are applied to                   *)

LineArtist == <<"A", "r", "t", "i", "s", "t", ":", " ", "Q">>
LineArtistUpper == <<"A", "R", "T", "I", "S", "T", ":", " ", " ", "Z", " ">>
LineTitle == <<"T", "i", "t", "l", "e", ":", " ", "B", " ", "R">>
LineTitleLower == <<" ", "t", "i", "t", "l", "e", ":", " ", "Y">>
LineArtistNoValue == <<"A", "r", "t", "i", "s", "t", ":", " ">>
LineArtistNoSpace == <<"A", "r", "t", "i", "s", "t", ":", "Q">>
LineOther == <<"A", "l", "b", "u", "m", ":", " ", "X">>
LineBlank == <<" ">>

ExLines ==
  {LineArtist, LineArtistUpper, LineTitle, LineTitleLower, LineArtistNoValue,
   LineArtistNoSpace, LineOther, LineBlank}

\* The text of a file with these lines, each ended by a line break.
RECURSIVE TextOf(_)
TextOf(lines) ==
  IF lines = <<>> THEN <<>>
  ELSE Head(lines) \o <<NL>> \o TextOf(Tail(lines))

ExContents ==
  {TextOf(ls) : ls \in UNION {[1..n -> ExLines] : n \in 0..MaxLines}}

RpFields == {None, <<>>, <<" ">>, <<"Q">>, <<" ", "B", " ">>}

monitorInit ==
  /\ mainpc = "construct" /\ exitStatus = -1 /\ interruptedAt = "none"
  /\ observer = "none" /\ stopCalls = 0 /\ obsStops = 0
  /\ file \in FileKinds
  /\ initRead = "none" /\ ipair = <<None, None>> /\ initCalls = 0
  /\ initOutcome = "none"
  /\ queue = <<>> /\ nEvents = 0
  /\ clock = BootClock /\ last_modified = 0
  /\ hpc = "idle" /\ hpair = <<None, None>> /\ hthread = "alive"
  /\ hOutcome = "none" /\ accepted = 0 /\ prevT = -1 /\ hCalls = 0
  /\ httpRequests = 0

extractorIdle ==
  /\ exContent = <<>> /\ exResult = <<None, None>> /\ exParsed = <<None, None>>
  /\ exDone = FALSE

reporterIdle ==
  /\ rpArtist = None /\ rpTitle = None
  /\ rpResp = [kind |-> "status", code |-> 200]
  /\ rpOut = post_now_playing(None, None, [kind |-> "status", code |-> 200])
  /\ rpDone = FALSE

builderIdle == buTimestamp = <<>> /\ buUrl = <<>> /\ buDone = FALSE

---------------------------------------------------------------------------
(* The program                                                             *)

Init == monitorInit /\ extractorIdle /\ reporterIdle /\ builderIdle

Next ==
  \/ Construct \/ CheckExists \/ InitialRead \/ InitialPost \/ Subscribe
  \/ StartObserver \/ Interrupt \/ Join
  \/ Dispatch \/ ProcessRead \/ ProcessPost
  \/ ModifyFile \/ RemoveFile \/ OtherEvent \/ Tick

Spec == Init /\ [][Next]_vars

---------------------------------------------------------------------------
(* The extractor applied to one text                                       *)

ExtractInit ==
  /\ monitorInit /\ file = "pair" /\ reporterIdle /\ builderIdle
  /\ exContent \in ExContents
  /\ exResult = <<None, None>> /\ exParsed = <<None, None>> /\ exDone = FALSE

Extract ==
  /\ ~exDone
  /\ exResult' = extract_metadata(exContent)
  /\ exParsed' = parse_text(exContent)
  /\ exDone' = TRUE
  /\ UNCHANGED <<exContent, monitorVars, reporterVars, builderVars>>

ExtractSpec == ExtractInit /\ [][Extract]_vars

---------------------------------------------------------------------------
(* The reporter applied to one pair                                        *)

ReportInit ==
  /\ monitorInit /\ file = "pair" /\ extractorIdle /\ builderIdle
  /\ rpArtist \in RpFields /\ rpTitle \in RpFields
  /\ rpResp \in Responses
  /\ rpOut = post_now_playing(None, None, rpResp)
  /\ rpDone = FALSE

Report ==
  /\ ~rpDone
  /\ rpOut' = post_now_playing(rpArtist, rpTitle, rpResp)
  /\ rpDone' = TRUE
  /\ UNCHANGED <<rpArtist, rpTitle, rpResp, monitorVars, extractorVars, builderVars>>

ReportSpec == ReportInit /\ [][Report]_vars

---------------------------------------------------------------------------
(* The extractor and _build_url applied to one file                        *)

ValueQueen == <<"Q", "u", "e", "e", "n">>
ValueRhapsody == <<"B", "o", "h", "e", "m", "i", "a", "n", " ", "R", "h", "a", "p", "s", "o", "d", "y">>

E2EArtists == {ValueQueen, <<"A", "&", "B">>, <<"A", "C", " ", "D", "C">>, <<"Q">>}
E2ETitles == {ValueRhapsody, <<"Q", "+", "A">>, <<"a", "=", "b">>, <<"R", "e", ":", " ", "X">>, <<"B">>}

\* What _get_current_timestamp can return: '%Y-%m-%dT%H:%M:%S' of two moments.
Timestamps ==
  {<<"2", "0", "2", "6", "-", "1", "1", "-", "0", "3", "T", "0", "7", ":", "4", "0", ":", "0", "0">>,
   <<"1", "9", "9", "9", "-", "1", "2", "-", "3", "1", "T", "2", "3", ":", "5", "9", ":", "5", "9">>}

E2EContents ==
  {TextOf(<<<<"A", "r", "t", "i", "s", "t", ":", " ">> \o a, <<"T", "i", "t", "l", "e", ":", " ">> \o t>>) : a \in E2EArtists, t \in E2ETitles}

EndToEndInit ==
  /\ monitorInit /\ file = "pair" /\ reporterIdle
  /\ exContent \in E2EContents
  /\ exResult = <<None, None>> /\ exParsed = <<None, None>> /\ exDone = FALSE
  /\ buTimestamp \in Timestamps /\ buUrl = <<>> /\ buDone = FALSE

\* post_now_playing up to the request: the pair is validated, the timestamp
\* taken and the URL built.
BuildUrl ==
  /\ exDone /\ ~buDone
  /\ HasPair(exParsed) /\ validate_metadata(exParsed[1], exParsed[2])
  /\ buUrl' = build_url(exParsed[1], exParsed[2], buTimestamp)
  /\ buDone' = TRUE
  /\ UNCHANGED <<buTimestamp, monitorVars, extractorVars, reporterVars>>

EndToEndSpec == EndToEndInit /\ [][Extract \/ BuildUrl]_vars

---------------------------------------------------------------------------
(* Properties                                                              *)

\* A step in which the observer thread takes an event from its queue.
DispatchStep == Len(queue') < Len(queue)

\* A step in which a _process_file_change ends.
ProcessingEnds == hpc \in {"read", "post"} /\ hpc' = "idle"

\* The initial pass is over (the observer is created only after it).
InitialPassOver ==
  mainpc \in {"subscribe", "start_observer", "watching", "joining"}

\* C1: of two modification events of the watched file, the first of which
\* was processed and reported, the second is discarded when it happened less
\* than the debounce window after the first, and processed when it happened
\* more than the window after it, however long the first one's report took.
C1_Debounce ==
  [][(DispatchStep /\ Eligible(Head(queue)) /\ prevT >= 0
        /\ hOutcome \in {"delivered", "failed"}) =>
       /\ Head(queue).t - prevT < DebounceTicks => accepted' = accepted
       /\ Head(queue).t - prevT > DebounceTicks => accepted' = accepted + 1]_vars

\* C2: a failing extraction or report does not leave the event handler: the
\* observer thread stays alive, the end of a processing changes nothing but
\* the handler's own position, whatever its outcome, and the next event is
\* taken and accepted by the debounce test alone.
C2_FailureIsolation ==
  /\ [](hthread = "alive")
  /\ [][ProcessingEnds =>
          UNCHANGED <<mainpc, exitStatus, observer, last_modified, queue,
                      accepted, clock>>]_vars
  /\ []((observer = "started" /\ hpc = "idle" /\ queue # <<>>) => ENABLED Dispatch)
  /\ [][(DispatchStep /\ Eligible(Head(queue))) =>
          (hpc' = "read" <=> clock - last_modified >= DebounceTicks)]_vars

\* C2's case: an event is accepted and being processed after the processing
\* of an earlier event failed.
C2_Witness ==
  /\ hOutcome \in {"read_error", "failed", "raised"}
  /\ accepted >= 2 /\ hpc = "read" /\ observer = "started"

\* C3 as stated: once the initial pass is over, it has made exactly one
\* report attempt, whatever the file held at start.
C3_Original == InitialPassOver => initCalls = 1

\* C3 amended: the initial pass calls the reporter once when the file it
\* read held both an artist and a title, and not at all when a label is
\* missing, the file is empty or the read failed; no later event adds to the
\* calls of the initial pass.
C3_Startup ==
  /\ initCalls <= 1
  /\ (InitialPassOver \/ observer # "none") =>
       (initCalls = IF initRead = "pair" THEN 1 ELSE 0)
  /\ mainpc \in {"construct", "check_exists", "initial_read", "initial_post"} =>
       initCalls = 0
  /\ initCalls = 1 => initOutcome \in {"delivered", "failed", "raised"}

\* C3's case: the file held a pair at start, the pair was reported once, and
\* an event has been accepted since.
C3_Witness ==
  /\ mainpc = "watching" /\ initRead = "pair" /\ initCalls = 1
  /\ accepted >= 1 /\ hCalls >= 1

\* A field that is empty or blank after trimming (or no string at all).
IsBlank(f) == f = None \/ \A i \in 1..Len(f) : f[i] \in Whitespace

\* C4: a pair with a blank field is rejected (False) and no HTTP request is
\* issued.
C4_BlankRejected ==
  (rpDone /\ (IsBlank(rpArtist) \/ IsBlank(rpTitle))) =>
    (rpOut.result = FALSE /\ rpOut.requests = 0 /\ rpOut.outcome = "rejected")

\* C4's case: the artist is blank and the title is not.
C4_Witness ==
  /\ rpDone /\ rpArtist = <<" ">> /\ rpTitle = <<"Q">>
  /\ rpOut.result = FALSE /\ rpOut.requests = 0

\* C5: a delivery is Delivered (True) exactly when the status is 2xx; every
\* other status, every transport error and every timeout gives False, and
\* nothing is raised.
C5_Classification ==
  (rpDone /\ ~IsBlank(rpArtist) /\ ~IsBlank(rpTitle) /\ rpResp.kind # "unexpected") =>
    /\ rpOut.result <=>
         (rpResp.kind = "status" /\ 200 <= rpResp.code /\ rpResp.code <= 299)
    /\ ~rpOut.raised

\* C6: the HTTP requests issued never exceed the reporter calls that can
\* have been made: one for the initial pass and one for each accepted event
\* whose processing has reached the reporter.
C6_NoRetry ==
  /\ initCalls <= 1
  /\ httpRequests <= initCalls + accepted - (IF hpc \in {"read", "post"} THEN 1 ELSE 0)
  /\ httpRequests <= 1 + accepted

\* C6's case: the report of an accepted event has failed, and one request
\* was made for it.
C6_Witness ==
  /\ hOutcome = "failed" /\ hpc = "idle" /\ accepted = 1
  /\ httpRequests = initCalls + 1

ArtistLabel == <<"a", "r", "t", "i", "s", "t", ":">>
TitleLabel == <<"t", "i", "t", "l", "e", ":">>

\* A line of the form "<Label>: <value>": after trimming, the label in any
\* letter case, one space, and a value that is not blank.
IsFieldLine(label, l) ==
  LET t == Strip(l)
      n == Len(label)
  IN /\ Len(t) > n + 1
     /\ LowerStr(SubSeq(t, 1, n)) = label
     /\ t[n + 1] = " "
     /\ ~IsBlank(SubSeq(t, n + 2, Len(t)))

\* The trimmed value of such a line.
FieldValue(label, l) ==
  LET t == Strip(l) IN Strip(SubSeq(t, Len(label) + 2, Len(t)))

\* The lines of a text that carry the label.
FieldLines(label, text) ==
  {i \in 1..Len(SplitLines(text)) : IsFieldLine(label, SplitLines(text)[i])}

SetMax(S) == CHOOSE x \in S : \A y \in S : y <= x

LastValue(label, text) ==
  FieldValue(label, SplitLines(text)[SetMax(FieldLines(label, text))])

\* C7: for a text with at least one artist line and one title line, the
\* extractor returns the trimmed value of the last artist line and of the
\* last title line.
C7_LastWins ==
  (exDone /\ FieldLines(ArtistLabel, exContent) # {}
          /\ FieldLines(TitleLabel, exContent) # {}) =>
    /\ exResult = <<LastValue(ArtistLabel, exContent), LastValue(TitleLabel, exContent)>>
    /\ exParsed = exResult

\* C7's case: two artist lines with different values around a title line.
C7_Witness ==
  /\ exDone
  /\ exContent = TextOf(<<LineArtist, LineTitle, LineArtistUpper>>)
  /\ exResult = << <<"Z">>, <<"B", " ", "R">> >>

\* C8: for a text without an artist line or without a title line, the
\* extractor returns absence: both fields None.
C8_NoPartialPair ==
  (exDone /\ (FieldLines(ArtistLabel, exContent) = {}
              \/ FieldLines(TitleLabel, exContent) = {})) =>
    (exResult = <<None, None>> /\ exParsed = <<None, None>>)

\* C9: after an interrupt during the initial pass, during the subscription
\* setup or in the sleep loop the process has called stop_monitoring and
\* exits with status 0; without an interrupt it exits only on a startup
\* failure, with a status that is not 0.
C9_ExitStatus ==
  mainpc = "exited" =>
    IF interruptedAt \in {"initial_read", "initial_post", "subscribe",
                          "start_observer", "watching"}
    THEN exitStatus = 0 /\ stopCalls >= 1
    ELSE interruptedAt = "none" => exitStatus # 0

\* C10: a call of stop_monitoring while the monitor is not Watching changes
\* nothing and does nothing to the observer; a call in Watching stops the
\* observer.
C10_StopIdempotent ==
  [][stopCalls' > stopCalls =>
       IF observer = "started"
       THEN observer' \in {"stopped", "joined"} /\ obsStops' = obsStops + 1
       ELSE observer' = observer /\ obsStops' = obsStops]_vars

\* Whether the text `sub` occurs in the text s.
Contains(sub, s) ==
  \E i \in 0..(Len(s) - Len(sub)) : SubSeq(s, i + 1, i + Len(sub)) = sub

QueenContent == TextOf(<<<<"A", "r", "t", "i", "s", "t", ":", " ", "Q", "u", "e", "e", "n">>, <<"T", "i", "t", "l", "e", ":", " ", "B", "o", "h", "e", "m", "i", "a", "n", " ", "R", "h", "a", "p", "s", "o", "d", "y">>>>)

\* C11 as stated: for the file "Artist: Queen / Title: Bohemian Rhapsody"
\* the extractor gives Queen and Bohemian Rhapsody and the URL built holds
\* the text artist=Queen&title=Bohemian+Rhapsody.
C11_ArtistThenTitle ==
  (buDone /\ exContent = QueenContent) =>
    /\ exParsed = <<ValueQueen, ValueRhapsody>>
    /\ Contains(<<"a", "r", "t", "i", "s", "t", "=", "Q", "u", "e", "e", "n", "&", "t", "i", "t", "l", "e", "=", "B", "o", "h", "e", "m", "i", "a", "n", "+", "R", "h", "a", "p", "s", "o", "d", "y">>, buUrl)

\* C11 amended: the extractor gives Queen and Bohemian Rhapsody, and the URL
\* built ends with the title parameter followed by the artist parameter,
\* title=Bohemian+Rhapsody&artist=Queen, after rpuid and startTime.
C11_TitleThenArtist ==
  (buDone /\ exContent = QueenContent) =>
    /\ exParsed = <<ValueQueen, ValueRhapsody>>
    /\ buUrl = ApiEndpoint \o <<"?", "r", "p", "u", "i", "d", "=", "7", "&", "s", "t", "a", "r", "t", "T", "i", "m", "e", "=">> \o buTimestamp
                 \o <<"&", "t", "i", "t", "l", "e", "=", "B", "o", "h", "e", "m", "i", "a", "n", "+", "R", "h", "a", "p", "s", "o", "d", "y", "&", "a", "r", "t", "i", "s", "t", "=", "Q", "u", "e", "e", "n">>

\* C11's case: the URL of the Queen file has been built.
C11_Witness ==
  /\ buDone /\ exContent = QueenContent
  /\ Contains(<<"t", "i", "t", "l", "e", "=", "B", "o", "h", "e", "m", "i", "a", "n", "+", "R", "h", "a", "p", "s", "o", "d", "y", "&", "a", "r", "t", "i", "s", "t", "=", "Q", "u", "e", "e", "n">>, buUrl)

InitialPassRunning == mainpc \in {"initial_read", "initial_post"}

HandlingRunning == hpc \in {"read", "post"}

\* C12: at most one extraction and report is in flight: the initial pass and
\* the handling of an event never overlap, an event is taken and accepted
\* only while no processing is running, and an event that arrives while
\* another is processed waits in the queue and changes nothing of the
\* processing under way.
C12_OneInFlight ==
  /\ [](~(InitialPassRunning /\ HandlingRunning))
  /\ [][DispatchStep => ~HandlingRunning /\ ~InitialPassRunning]_vars
  /\ [][accepted' # accepted =>
          ~HandlingRunning /\ ~InitialPassRunning /\ hpc' = "read"]_vars
  /\ [][(HandlingRunning /\ Len(queue') > Len(queue)) =>
          UNCHANGED <<hpc, hpair, accepted, last_modified, hCalls,
                      httpRequests>>]_vars

\* C12's case: an event has arrived while another one is being processed.
C12_Witness ==
  /\ HandlingRunning /\ accepted = 1 /\ queue # <<>>
  /\ Head(queue).kind = "file"

\* C13: stop_monitoring returns only when no event is being handled, and
\* once it has returned no event is taken, accepted or processed any more.
C13_CooperativeStop ==
  /\ [](observer = "joined" => ~HandlingRunning)
  /\ [][(mainpc = "joining" /\ mainpc' = "exited" /\ exitStatus' = 0) =>
          ~HandlingRunning /\ observer' = "joined"]_vars
  /\ [][observer = "joined" =>
          UNCHANGED <<queue, hpc, hpair, accepted, last_modified, hCalls,
                      httpRequests, hOutcome>>]_vars

\* C13's case: stop_monitoring has been called and waits while an event is
\* being handled.
C13_Witness ==
  /\ mainpc = "joining" /\ observer = "stopped" /\ hpc = "post"

\* C14: the handling of a directory event or of an event for another path
\* changes neither the last accepted time nor anything else of the handler:
\* no read, no call of the reporter, no request.
C14_IgnoredEvents ==
  [][(DispatchStep /\ Head(queue).kind \in {"dir", "other"}) =>
       UNCHANGED <<last_modified, hpc, hpair, accepted, prevT, hCalls,
                   httpRequests, hOutcome, hthread>>]_vars

\* C14's case: an ignored event was handled, and an event for the watched
\* file that arrived in the same tick has been accepted after it.
C14_Witness ==
  /\ nEvents = 2 /\ queue = <<>> /\ accepted = 1 /\ hpc = "read"
  /\ hOutcome = "none" /\ clock = BootClock /\ last_modified = clock

AbsentKinds == {"no_title", "empty"}

\* C15: when the file read holds no artist or no title, in the initial pass
\* and in the handling of an event alike, the reporter is not called and no
\* request is made; the initial pass goes on to the subscription, the
\* handler goes back to waiting for events with its thread alive.
C15_AbsenceNoOp ==
  /\ [][(mainpc = "initial_read" /\ initRead' # initRead
           /\ file \in AbsentKinds) =>
          /\ mainpc' = "subscribe" /\ initOutcome' = "absent"
          /\ UNCHANGED <<initCalls, hCalls, httpRequests, exitStatus>>]_vars
  /\ [][(hpc = "read" /\ hpc' # "read" /\ file \in AbsentKinds) =>
          /\ hpc' = "idle" /\ hthread' = "alive" /\ hOutcome' = "absent"
          /\ UNCHANGED <<initCalls, hCalls, httpRequests, mainpc, observer,
                         exitStatus>>]_vars
  /\ []((initOutcome = "absent" /\ hCalls = 0) => httpRequests = 0)
  /\ []((initOutcome = "absent" /\ initRead \in AbsentKinds) => initCalls = 0)

\* C15's case: the initial pass and the handling of an event both found no
\* pair, nothing was posted, and the monitor is still watching.
C15_Witness ==
  /\ initOutcome = "absent" /\ hOutcome = "absent" /\ accepted = 1
  /\ hpc = "idle" /\ mainpc = "watching" /\ observer = "started"
  /\ httpRequests = 0 /\ initCalls = 0 /\ hCalls = 0

\* start_monitoring has ended with an exception that main logged, and no
\* interrupt was involved.
StartFailed ==
  /\ mainpc = "exited" /\ exitStatus = 1
  /\ interruptedAt = "none" /\ stopCalls >= 1

\* C16 as stated: start_monitoring fails only when the file does not exist
\* at the test made at start.
C16_Original == StartFailed => (initRead = "none" /\ file = "missing")

\* C16 amended: start_monitoring fails when the file does not exist at its
\* test, and then nothing was read, no request made and no observer created,
\* or when the observer could not be started after the initial pass; no
\* outcome of the initial pass ends start_monitoring: the pass is followed
\* by the set-up of the observer, and the observer that starts is watched.
C16_Startup ==
  /\ [][(InitialPassRunning /\ mainpc' # mainpc
           /\ interruptedAt' = interruptedAt) =>
          /\ mainpc' \in {"initial_post", "subscribe"}
          /\ exitStatus' = exitStatus /\ stopCalls' = stopCalls]_vars
  /\ [][(mainpc = "subscribe" /\ mainpc' # mainpc
           /\ interruptedAt' = interruptedAt) =>
          mainpc' = "start_observer" /\ observer' = "created"]_vars
  /\ [][(mainpc = "start_observer" /\ observer' = "started") =>
          mainpc' = "watching"]_vars
  /\ [][(mainpc = "check_exists" /\ file = "missing" /\ mainpc' # mainpc
           /\ interruptedAt' = interruptedAt) =>
          /\ mainpc' = "exited" /\ exitStatus' = 1
          /\ UNCHANGED <<initRead, initCalls, httpRequests, observer>>]_vars
  /\ [](StartFailed =>
          \/ /\ initRead = "none" /\ file = "missing" /\ observer = "none"
             /\ initCalls = 0 /\ httpRequests = 0 /\ nEvents = 0
          \/ /\ initRead # "none" /\ initOutcome # "none"
             /\ observer \notin {"none", "started", "joined"}
             /\ nEvents = 0)

\* C16's case: the file was removed between the test and the read of the
\* initial pass, and the monitor is watching all the same.
C16_Witness ==
  /\ mainpc = "watching" /\ observer = "started"
  /\ initRead = "missing" /\ initOutcome = "read_error"

\* C17: last_modified changes only at the acceptance of an event for the
\* watched file, where it becomes the time of the acceptance before the
\* processing begins; a discarded event and the end of a processing,
\* whatever its outcome, leave it alone, so that an event handled less than
\* the window after an acceptance is discarded also when the processing
\* failed. It never decreases.
C17_LastAccepted ==
  /\ [][last_modified' # last_modified =>
          /\ DispatchStep /\ Head(queue).kind = "file"
          /\ accepted' = accepted + 1 /\ last_modified' = clock
          /\ hpc = "idle" /\ hpc' = "read"]_vars
  /\ [][accepted' # accepted => last_modified' = clock]_vars
  /\ [][(DispatchStep /\ accepted' = accepted) =>
          last_modified' = last_modified]_vars
  /\ [][ProcessingEnds => last_modified' = last_modified]_vars
  /\ [][(DispatchStep /\ Head(queue).kind = "file") =>
          IF clock - last_modified < DebounceTicks
          THEN accepted' = accepted /\ hpc' = "idle"
          ELSE accepted' = accepted + 1]_vars
  /\ [][last_modified' >= last_modified]_vars

\* C17's case: the processing of an accepted event has failed, and an event
\* for the watched file is handled within the window after the acceptance.
C17_Witness ==
  /\ hOutcome \in {"absent", "read_error", "failed", "raised"}
  /\ accepted = 1 /\ hpc = "idle" /\ observer = "started"
  /\ queue # <<>> /\ Head(queue).kind = "file"
  /\ clock - last_modified < DebounceTicks /\ last_modified >= BootClock

C19_StartupOrder ==
  /\ [](observer # "none" =>
          ~InitialPassRunning /\ initRead # "none" /\ initOutcome # "none")
  /\ [](observer \in {"none", "created"} =>
          /\ nEvents = 0 /\ queue = <<>> /\ accepted = 0
          /\ ~HandlingRunning /\ hCalls = 0 /\ hOutcome = "none")
  /\ [][(file' # file /\ observer # "started") =>
          UNCHANGED <<queue, nEvents, hpc, accepted, last_modified>>]_vars
  /\ [][accepted' # accepted =>
          observer = "started" /\ initOutcome # "none"]_vars

\* C19's case: the file was changed after the initial read and before the
\* observer was started; the monitor has been watching for a while and no
\* event has come of it.
C19_Witness ==
  /\ mainpc = "watching" /\ observer = "started" /\ clock > BootClock
  /\ initRead \notin {"none", "missing"} /\ file \notin {initRead, "missing"}
  /\ nEvents = 0 /\ accepted = 0 /\ hpc = "idle"

\* C20: the initial pass leaves last_modified at 0: it is 0 when the
\* observer starts and as long as no event has been accepted, so the first
\* event for the watched file that is handled is accepted and processed,
\* whatever the time since the initial pass.
C20_FirstEventAccepted ==
  /\ [](accepted = 0 => last_modified = 0)
  /\ [][(mainpc = "start_observer" /\ mainpc' = "watching") =>
          last_modified' = 0]_vars
  /\ [][(DispatchStep /\ Head(queue).kind = "file" /\ accepted = 0) =>
          accepted' = 1 /\ hpc' = "read"]_vars

\* C20's case: the pair posted by the initial pass has been posted again for
\* an event handled in the very tick of the initial pass.
C20_Witness ==
  /\ initRead = "pair" /\ initCalls = 1 /\ initOutcome = "delivered"
  /\ accepted = 1 /\ hCalls = 1 /\ hOutcome = "delivered" /\ hpair = ipair
  /\ httpRequests = 2 /\ clock = BootClock

====
